---- MODULE Spec2Model ----
(***************************************************************************)
(* Model of MudahScraper (src/script.py): the request executor             *)
(* _make_request, the listing URL extractor get_car_urls, the detail       *)
(* extractor get_car_info, the page URL generator get_page_urls, the       *)
(* normalization loop of scrape_cars and scrape_cars as a whole.           *)
(* Durations are in tenths of a second, so that the jitter factor of       *)
(* random.uniform(0.5, 1.5) is an integer between 5 and 15.                *)
(***************************************************************************)
EXTENDS Integers, Sequences, FiniteSets, TLC

VARIABLES
    self_max_retries,   \* self.max_retries
    base_delay,         \* self.base_delay
    rq,                 \* position of _make_request: idle, call, slept, returned, raised
    rq_retry,           \* retry_count of the innermost _make_request invocation
    rq_sleeps,          \* sleeps made by the innermost invocation so far
    rq_jitter,          \* jitter drawn by the innermost invocation (tenths)
    rq_delay,           \* delay slept by the innermost invocation (tenths of a second)
    rq_requests,        \* outbound requests issued since the outermost invocation began
    rq_fails,           \* of these, the ones that ended in a RequestException
    rq_last,            \* outcome of the latest request: [exc, at]
    rq_raised,          \* the exception that left _make_request: [exc, at]
    pc,                 \* position of the calling method
    expected_urls,      \* get_car_urls: expected_urls
    max_retries,        \* get_car_urls: max_retries (the attempt budget)
    retry_count,        \* get_car_urls: retry_count
    best_result,        \* get_car_urls: best_result
    car_urls,           \* get_car_urls: car_urls of the running attempt, empty between attempts
    ret,                \* value returned by the calling method
    escaped,            \* exception that left the calling method, "none" if none
    wait_delay,         \* get_car_urls: delay of the sleep before the next fetch (tenths), 0 if none
    waits,              \* get_car_urls: attempt-level sleeps made
    fetches,            \* _make_request calls made by the calling method
    total_requests,     \* outbound requests issued during the calling method
    largest,            \* get_car_urls: the largest len(result_urls) of the attempts so far
    last_size,          \* get_car_urls: len(result_urls) of the latest attempt, 0 if it raised
    handled,            \* get_car_urls: exception the attempt's except clause took last, until the next fetch
    failed_fetches,     \* _make_request calls of the calling method that raised
    caught,             \* get_car_urls: strategies of the running attempt whose own except clause ran
    url,                \* get_car_info: url
    page,               \* get_car_info: what the fetched detail page embeds
    car_attrs,          \* scrape_cars: the attribute sequence being normalized
    idx,                \* scrape_cars: items of car_attrs consumed so far
    car_dict,           \* scrape_cars: the record under construction
    state,              \* scrape_cars, get_page_urls: state
    brand,              \* scrape_cars, get_page_urls: brand
    start,              \* scrape_cars, get_page_urls: start
    end,                \* scrape_cars, get_page_urls: end
    page_urls,          \* scrape_cars: page_urls
    page_i,             \* scrape_cars: page urls consumed by the first loop
    run_car_urls,       \* scrape_cars: car_urls, the listing urls of all pages
    car_i,              \* scrape_cars: listing urls consumed by the second loop
    car_data,           \* scrape_cars: car_data
    processed_data,     \* scrape_cars: processed_data
    page_results,       \* scrape_cars: what get_car_urls returned, per page consumed
    results             \* scrape_cars: what get_car_info returned, per listing url consumed

rqvars == <<rq, rq_retry, rq_sleeps, rq_jitter, rq_delay, rq_requests, rq_fails,
            rq_last, rq_raised>>
cfgvars == <<self_max_retries, base_delay, expected_urls, max_retries>>
urlvars == <<retry_count, best_result, car_urls, wait_delay, waits, largest,
             last_size, caught, handled, failed_fetches>>
infovars == <<url, page>>
normvars == <<car_attrs, idx, car_dict>>
callvars == <<pc, ret, escaped, fetches>>
argvars == <<state, brand, start, end>>
runvars == <<argvars, page_urls, page_i, run_car_urls, car_i, car_data, processed_data,
             page_results, results>>
vars == <<cfgvars, runvars, rqvars, total_requests, urlvars, infovars, normvars, callvars>>

----------------------------------------------------------------------------
(* Bounds of the model. *)

MaxRetries == 3        \* self.max_retries ranges over 0..MaxRetries
MaxAttempts == 2       \* get_car_urls' max_retries ranges over 0..MaxAttempts
MaxExpected == 2       \* expected_urls ranges over 0..MaxExpected
MaxFetchRetries == 1   \* self.max_retries under get_car_urls and get_car_info
MaxItems == 1          \* entries of an embedded item list
MaxParams == 1         \* entries of categoryParams and of a group's params
MaxAttrs == 3          \* length of an attribute sequence given to the normalizer
MaxPage == 4           \* start and end range over 1..MaxPage
MaxRunPages == 2       \* start and end of a whole run range over 1..MaxRunPages

DefaultBaseDelay == 2                \* base_delay: int = 2
DefaultMaxAttempts == 3              \* get_car_urls: max_retries: int = 3
DefaultExpected == 40                \* expected_urls_per_page: int = 40
BaseDelays == {1, DefaultBaseDelay}  \* self.base_delay, seconds
Jitters == {5, 10, 15}               \* random.uniform(0.5, 1.5), tenths
AttemptJitters == {10, 20, 30}       \* random.uniform(1, 3), tenths of a second
StatusCodes == {200, 404, 503}

----------------------------------------------------------------------------
(* Exceptions. *)

RequestExceptions == {"HTTPError", "ConnectionError", "Timeout"}
ParseExceptions == {"JSONDecodeError", "IndexError", "KeyError", "TypeError",
                    "AttributeError"}
Exceptions == RequestExceptions \cup ParseExceptions \cup {"OtherException"}

IsRequestException(e) == e \in RequestExceptions

NoError == [exc |-> "none", at |-> 0]

----------------------------------------------------------------------------
(* _make_request *)

\* What scraper.get does: a response with a status code, or an exception.
GetOutcomes ==
    [exc : {"none"}, status : StatusCodes]
        \cup [exc : {"ConnectionError", "Timeout", "OtherException"}, status : {0}]

\* response.raise_for_status(): HTTPError for a 4xx or 5xx status.
RaiseForStatus(o) ==
    IF o.exc # "none" THEN o.exc
    ELSE IF o.status >= 400 /\ o.status < 600 THEN "HTTPError"
    ELSE "none"

BackoffDelayLinear(base, k, jitter) == (base * (2 * k)) * jitter

\* delay = (self.base_delay * (2 ** retry_count)) * jitter
BackoffDelay(base, k, jitter) == (base * (2 ^ k)) * jitter

MayRetryInclusive(k) == k <= self_max_retries

\* if retry_count < self.max_retries
MayRetry(k) == k < self_max_retries

\* Entering _make_request(url) from a caller: retry_count = 0, no local is set.
CallMakeRequest ==
    /\ rq' = "call"
    /\ rq_retry' = 0
    /\ rq_sleeps' = 0
    /\ rq_jitter' = 0
    /\ rq_delay' = 0
    /\ rq_requests' = 0
    /\ rq_fails' = 0
    /\ rq_last' = NoError
    /\ rq_raised' = NoError

\* The caller has taken the response or the exception: no invocation is left.
LeaveMakeRequest ==
    /\ rq' = "idle"
    /\ rq_retry' = 0
    /\ rq_sleeps' = 0
    /\ rq_jitter' = 0
    /\ rq_delay' = 0
    /\ rq_requests' = 0
    /\ rq_fails' = 0
    /\ rq_last' = NoError
    /\ rq_raised' = NoError

\* jitter = random.uniform(0.5, 1.5); delay = ...; time.sleep(delay)
MakeRequestSleep ==
    /\ rq = "call"
    /\ \E j \in Jitters :
          /\ rq_jitter' = j
          /\ rq_delay' = BackoffDelay(base_delay, rq_retry, j)
    /\ rq_sleeps' = rq_sleeps + 1
    /\ rq' = "slept"
    /\ UNCHANGED <<rq_retry, rq_requests, rq_fails, rq_last, rq_raised, total_requests>>
    /\ UNCHANGED <<cfgvars, runvars, urlvars, infovars, normvars, callvars>>

\* response = self.scraper.get(...); response.raise_for_status(); return response,
\* and the except RequestException clause with its recursive call. The locals
\* jitter and delay end with the invocation that drew them.
MakeRequestGet ==
    /\ rq = "slept"
    /\ rq_requests' = rq_requests + 1
    /\ total_requests' = total_requests + 1
    /\ \E o \in GetOutcomes :
          LET e == RaiseForStatus(o) IN
          /\ rq_last' = [exc |-> e, at |-> rq_retry]
          /\ IF e = "none"
             THEN /\ rq' = "returned"
                  /\ UNCHANGED <<rq_retry, rq_fails, rq_raised>>
             ELSE IF IsRequestException(e)
             THEN /\ rq_fails' = rq_fails + 1
                  /\ IF MayRetry(rq_retry)
                     THEN /\ rq' = "call"
                          /\ rq_retry' = rq_retry + 1
                          /\ UNCHANGED rq_raised
                     ELSE /\ rq' = "raised"
                          /\ rq_raised' = [exc |-> e, at |-> rq_retry]
                          /\ UNCHANGED rq_retry
             ELSE /\ rq' = "raised"
                  /\ rq_raised' = [exc |-> e, at |-> rq_retry]
                  /\ UNCHANGED <<rq_retry, rq_fails>>
    /\ rq_sleeps' = 0
    /\ rq_jitter' = 0
    /\ rq_delay' = 0
    /\ UNCHANGED <<cfgvars, runvars, urlvars, infovars, normvars, callvars>>

\* Values of the variables a specification does not use.
IdleUrls ==
    /\ expected_urls = 0 /\ max_retries = 0 /\ retry_count = 0
    /\ best_result = <<>> /\ car_urls = {}
    /\ wait_delay = 0 /\ waits = 0 /\ largest = 0 /\ last_size = 0
    /\ caught = {} /\ handled = "none" /\ failed_fetches = 0
IdleInfo == url = [ad |-> "none"] /\ page = "unfetched"
IdleNorm == car_attrs = <<>> /\ idx = 0 /\ car_dict = <<>>
IdleArgs == state = "" /\ brand = "" /\ start = 1 /\ end = 1
IdleRun ==
    /\ page_urls = <<>> /\ page_i = 0 /\ run_car_urls = <<>> /\ car_i = 0
    /\ car_data = <<>> /\ processed_data = <<>> /\ page_results = <<>> /\ results = <<>>
IdleRequest ==
    /\ rq = "idle" /\ rq_retry = 0 /\ rq_sleeps = 0 /\ rq_jitter = 0 /\ rq_delay = 0
    /\ rq_requests = 0 /\ rq_fails = 0 /\ rq_last = NoError /\ rq_raised = NoError
    /\ total_requests = 0

\* One call _make_request(url) on a scraper built with any max_retries, base_delay.
InitReq ==
    /\ self_max_retries \in 0..MaxRetries
    /\ base_delay \in BaseDelays
    /\ rq = "call" /\ rq_retry = 0 /\ rq_sleeps = 0 /\ rq_jitter = 0 /\ rq_delay = 0
    /\ rq_requests = 0 /\ rq_fails = 0 /\ rq_last = NoError /\ rq_raised = NoError
    /\ total_requests = 0
    /\ pc = "request" /\ ret = <<>> /\ escaped = "none" /\ fetches = 1
    /\ IdleUrls /\ IdleInfo /\ IdleNorm /\ IdleArgs /\ IdleRun

NextReq == MakeRequestSleep \/ MakeRequestGet

SpecReq == InitReq /\ [][NextReq]_vars

----------------------------------------------------------------------------
(* Links.  A link is its path, numbered, and whether it is written with the  *)
(* origin (absolute) or not: path 1 is a listing document under /cars/,      *)
(* path 2 an HTML document elsewhere, path 3 is no HTML document.            *)

Abs(n) == [abs |-> TRUE, n |-> n]
Rel(n) == [abs |-> FALSE, n |-> n]
NoLink == [abs |-> FALSE, n |-> 0]

\* href=re.compile(r'/cars/.+\.html?')
MatchesCarsHtml(l) == l.n = 1

\* href=re.compile(r'.+\.html?')
MatchesHtml(l) == l.n \in {1, 2}

\* if not url.startswith('http'): url = f"https://www.mudah.my{url}"
Absolutize(l) == IF l.abs THEN l ELSE [l EXCEPT !.abs = TRUE]

\* Links an embedded JSON block may carry, and hrefs an anchor may carry.
EmbeddedLinks == {Abs(1), Rel(1), Abs(2)}
DomHrefs == {Rel(1), Abs(2), Rel(3)}

SeqsUpTo(S, n) == UNION {[1..k -> S] : k \in 0..n}

\* list(car_urls): the elements of the set, once each, in some order.
ListsOf(S) ==
    {l \in [1..Cardinality(S) -> S] : \A i, j \in 1..Cardinality(S) : l[i] = l[j] => i = j}

----------------------------------------------------------------------------
(* get_car_urls: the three strategies.  Each yields the set after it and    *)
(* the exception it raised, "none" if it ran to its end.                    *)

\* Entries of an embedded list: an object with its link, an object without
\* the key that is read, or a value that is no object.
Entries ==
    [kind : {"url"}, link : EmbeddedLinks]
        \cup [kind : {"no_key", "not_object"}, link : {NoLink}]
EntryLists == SeqsUpTo(Entries, MaxItems)

\* The application/ld+json script of a page.
LdBlocks ==
    [shape : {"absent", "malformed", "object", "short", "scalar",
              "element_not_object", "items_null"}, items : {<<>>}]
        \cup [shape : {"items"}, items : EntryLists]

\* car_urls.update(item['item']['url'] for item in item_list_element)
RECURSIVE UpdateFromItems(_, _)
UpdateFromItems(items, urls) ==
    IF items = <<>> THEN [urls |-> urls, exc |-> "none"]
    ELSE LET item == Head(items) IN
         IF item.kind = "no_key" THEN [urls |-> urls, exc |-> "KeyError"]
         ELSE IF item.kind = "not_object" THEN [urls |-> urls, exc |-> "TypeError"]
         ELSE UpdateFromItems(Tail(items), urls \cup {item.link})

\* Method 1, lines 114-119, before its except clause.
Method1(ld, urls) ==
    CASE ld.shape = "absent" -> [urls |-> urls, exc |-> "none"]
      [] ld.shape = "malformed" -> [urls |-> urls, exc |-> "JSONDecodeError"]
      [] ld.shape = "object" -> [urls |-> urls, exc |-> "KeyError"]
      [] ld.shape = "short" -> [urls |-> urls, exc |-> "IndexError"]
      [] ld.shape = "scalar" -> [urls |-> urls, exc |-> "TypeError"]
      [] ld.shape = "element_not_object" -> [urls |-> urls, exc |-> "AttributeError"]
      [] ld.shape = "items_null" -> [urls |-> urls, exc |-> "TypeError"]
      [] ld.shape = "items" -> UpdateFromItems(ld.items, urls)

\* except (json.JSONDecodeError, IndexError, KeyError)
Method1Catches(e) == e \in {"JSONDecodeError", "IndexError", "KeyError"}

\* A listing element is the sequence of the hrefs of its anchors: none, a
\* listing link, a page that is no document, another document after such a
\* page, a listing link after another document.
Cards == {<<>>, <<Rel(1)>>, <<Rel(3)>>, <<Rel(3), Abs(2)>>, <<Abs(2), Rel(1)>>}
CardLists == {<<>>} \cup {<<c>> : c \in Cards}

\* What the three selectors find in the page.
Doms == [listing_card : CardLists, listing_item : CardLists, product_card : CardLists]

\* soup.select(A) or soup.select(B) or soup.select(C)
ListingElements(dom) ==
    IF dom.listing_card # <<>> THEN dom.listing_card
    ELSE IF dom.listing_item # <<>> THEN dom.listing_item
    ELSE dom.product_card

\* element.find('a', href=pattern): the first anchor that matches, NoLink if none.
RECURSIVE FindCars(_)
FindCars(card) ==
    IF card = <<>> THEN NoLink
    ELSE IF MatchesCarsHtml(Head(card)) THEN Head(card)
    ELSE FindCars(Tail(card))

RECURSIVE FindHtml(_)
FindHtml(card) ==
    IF card = <<>> THEN NoLink
    ELSE IF MatchesHtml(Head(card)) THEN Head(card)
    ELSE FindHtml(Tail(card))

\* link = find(/cars/...); if not link: link = find(...html)
LinkOf(card) == IF FindCars(card) # NoLink THEN FindCars(card) ELSE FindHtml(card)

\* Method 2, lines 124-137.
RECURSIVE Method2From(_, _)
Method2From(elements, urls) ==
    IF elements = <<>> THEN urls
    ELSE LET link == LinkOf(Head(elements)) IN
         Method2From(Tail(elements),
                     IF link # NoLink THEN urls \cup {Absolutize(link)} ELSE urls)

Method2(dom, urls) == [urls |-> Method2From(ListingElements(dom), urls), exc |-> "none"]

\* The __NEXT_DATA__ script of a page.
NextBlocks ==
    [shape : {"absent", "no_string", "malformed", "not_object", "path_missing",
              "path_null", "items_null"}, items : {<<>>}]
        \cup [shape : {"items"}, items : EntryLists]

\* for listing in listings: if 'url' in listing: car_urls.add(listing['url'])
RECURSIVE AddListings(_, _)
AddListings(listings, urls) ==
    IF listings = <<>> THEN [urls |-> urls, exc |-> "none"]
    ELSE LET listing == Head(listings) IN
         IF listing.kind = "not_object" THEN [urls |-> urls, exc |-> "TypeError"]
         ELSE IF listing.kind = "no_key" THEN AddListings(Tail(listings), urls)
         ELSE AddListings(Tail(listings), urls \cup {listing.link})

\* Method 3, lines 140-147, before its except clause.
Method3(nd, urls) ==
    CASE nd.shape = "absent" -> [urls |-> urls, exc |-> "none"]
      [] nd.shape = "no_string" -> [urls |-> urls, exc |-> "TypeError"]
      [] nd.shape = "malformed" -> [urls |-> urls, exc |-> "JSONDecodeError"]
      [] nd.shape = "not_object" -> [urls |-> urls, exc |-> "AttributeError"]
      [] nd.shape = "path_missing" -> [urls |-> urls, exc |-> "none"]
      [] nd.shape = "path_null" -> [urls |-> urls, exc |-> "AttributeError"]
      [] nd.shape = "items_null" -> [urls |-> urls, exc |-> "TypeError"]
      [] nd.shape = "items" -> AddListings(nd.items, urls)

\* except (json.JSONDecodeError, KeyError)
Method3Catches(e) == e \in {"JSONDecodeError", "KeyError"}

----------------------------------------------------------------------------
(* get_car_urls: the attempt loop. *)

OuterCatchesRequestOnly(e) == IsRequestException(e)

\* except Exception as e
OuterCatches(e) == e \in Exceptions

MoreAttemptsInclusive == retry_count <= max_retries

\* while retry_count < max_retries
MoreAttempts == retry_count < max_retries

ReachedExpectedStrict(result_urls) == Len(result_urls) > expected_urls

\* if len(result_urls) >= expected_urls
ReachedExpected(result_urls) == Len(result_urls) >= expected_urls

KeepLatest(result_urls, best) == result_urls

\* if len(result_urls) > len(best_result): best_result = result_urls
KeepBest(result_urls, best) ==
    IF Len(result_urls) > Len(best) THEN result_urls ELSE best

\* delay = self.base_delay * (2 ** (retry_count - 1)) + random.uniform(1, 3)
AttemptDelay(base, k, jitter) == base * (2 ^ (k - 1)) * 10 + jitter

Max(a, b) == IF a >= b THEN a ELSE b

OuterExceptNoCount(e) ==
    /\ IF OuterCatches(e)
       THEN /\ pc' = "loop"
            /\ handled' = e
            /\ UNCHANGED <<retry_count, escaped>>
       ELSE /\ pc' = "raised"
            /\ escaped' = e
            /\ UNCHANGED <<retry_count, handled>>
    /\ last_size' = 0
    /\ car_urls' = {}
    /\ caught' = {}
    /\ UNCHANGED largest

\* The except clause of the attempt, lines 166-168; an exception it does not
\* catch leaves get_car_urls. The attempt is over and has no result_urls.
OuterExcept(e) ==
    /\ IF OuterCatches(e)
       THEN /\ retry_count' = retry_count + 1
            /\ pc' = "loop"
            /\ handled' = e
            /\ UNCHANGED escaped
       ELSE /\ pc' = "raised"
            /\ escaped' = e
            /\ UNCHANGED <<retry_count, handled>>
    /\ last_size' = 0
    /\ car_urls' = {}
    /\ caught' = {}
    /\ UNCHANGED largest

\* The strategy ran to its end or its own except clause took its exception.
Contained(r, own) == r.exc = "none" \/ own

\* Lines 101-107: the loop test and, on a retry, the sleep before it.
AttemptStart ==
    /\ pc = "loop"
    /\ MoreAttempts
    /\ IF retry_count > 0
       THEN /\ \E j \in AttemptJitters :
                  wait_delay' = AttemptDelay(base_delay, retry_count, j)
            /\ waits' = waits + 1
       ELSE UNCHANGED <<wait_delay, waits>>
    /\ pc' = "attempt"
    /\ UNCHANGED <<retry_count, best_result, car_urls, largest, last_size, caught>>
    /\ UNCHANGED <<handled, failed_fetches>>
    /\ UNCHANGED <<ret, escaped, fetches>>
    /\ UNCHANGED <<cfgvars, runvars, rqvars, total_requests, infovars, normvars>>

\* Line 109: the call of _make_request, once the sleep is over.
AttemptFetch ==
    /\ pc = "attempt"
    /\ CallMakeRequest
    /\ fetches' = fetches + 1
    /\ pc' = "fetch"
    /\ wait_delay' = 0
    /\ handled' = "none"
    /\ UNCHANGED <<retry_count, best_result, car_urls, waits, largest, last_size>>
    /\ UNCHANGED <<caught, failed_fetches, ret, escaped>>
    /\ UNCHANGED <<cfgvars, runvars, total_requests, infovars, normvars>>

\* _make_request raised: the except clause of the attempt.
FetchFailed ==
    /\ pc = "fetch"
    /\ rq = "raised"
    /\ OuterExcept(rq_raised.exc)
    /\ LeaveMakeRequest
    /\ failed_fetches' = failed_fetches + 1
    /\ UNCHANGED <<best_result, wait_delay, waits, ret, fetches>>
    /\ UNCHANGED <<cfgvars, runvars, total_requests, infovars, normvars>>

\* Lines 110-121: soup, car_urls = set(), method 1.
ParseLdJson ==
    /\ pc = "fetch"
    /\ rq = "returned"
    /\ LeaveMakeRequest
    /\ \E ld \in LdBlocks :
          LET r == Method1(ld, {}) IN
          IF Contained(r, Method1Catches(r.exc))
          THEN /\ car_urls' = r.urls
               /\ caught' = IF r.exc = "none" THEN {} ELSE {1}
               /\ pc' = "method2"
               /\ UNCHANGED <<retry_count, largest, last_size, escaped, handled>>
          ELSE OuterExcept(r.exc)
    /\ UNCHANGED <<best_result, wait_delay, waits, failed_fetches, ret, fetches>>
    /\ UNCHANGED <<cfgvars, runvars, total_requests, infovars, normvars>>

\* Lines 124-137: method 2.
ParseDom ==
    /\ pc = "method2"
    /\ \E dom \in Doms :
          car_urls' = Method2(dom, car_urls).urls
    /\ pc' = "method3"
    /\ UNCHANGED <<retry_count, best_result, wait_delay, waits, largest, last_size>>
    /\ UNCHANGED <<caught, handled, failed_fetches>>
    /\ UNCHANGED <<ret, escaped, fetches>>
    /\ UNCHANGED <<cfgvars, runvars, rqvars, total_requests, infovars, normvars>>

\* Lines 140-149: method 3.
ParseNextData ==
    /\ pc = "method3"
    /\ \E nd \in NextBlocks :
          LET r == Method3(nd, car_urls) IN
          IF Contained(r, Method3Catches(r.exc))
          THEN /\ car_urls' = r.urls
               /\ caught' = IF r.exc = "none" THEN caught ELSE caught \cup {3}
               /\ pc' = "tally"
               /\ UNCHANGED <<retry_count, largest, last_size, escaped, handled>>
          ELSE OuterExcept(r.exc)
    /\ UNCHANGED <<best_result, wait_delay, waits, failed_fetches, ret, fetches>>
    /\ UNCHANGED <<cfgvars, runvars, rqvars, total_requests, infovars, normvars>>

\* Lines 151-164: result_urls, the best result, the threshold, the next attempt.
Tally ==
    /\ pc = "tally"
    /\ \E result_urls \in ListsOf(car_urls) :
          /\ best_result' = KeepBest(result_urls, best_result)
          /\ largest' = Max(largest, Len(result_urls))
          /\ last_size' = Len(result_urls)
          /\ IF ReachedExpected(result_urls)
             THEN /\ ret' = result_urls
                  /\ pc' = "done"
                  /\ UNCHANGED <<retry_count, car_urls, caught>>
             ELSE /\ retry_count' = retry_count + 1
                  /\ pc' = "loop"
                  /\ car_urls' = {}
                  /\ caught' = {}
                  /\ UNCHANGED ret
    /\ UNCHANGED <<wait_delay, waits, handled, failed_fetches, escaped, fetches>>
    /\ UNCHANGED <<cfgvars, runvars, rqvars, total_requests, infovars, normvars>>

\* Lines 170-172: the loop ended; return best_result.
Exhausted ==
    /\ pc = "loop"
    /\ ~MoreAttempts
    /\ ret' = best_result
    /\ pc' = "done"
    /\ UNCHANGED <<escaped, fetches>>
    /\ UNCHANGED <<cfgvars, runvars, rqvars, total_requests, urlvars, infovars, normvars>>

\* One call get_car_urls(page_url, expected_urls, max_retries).
Init ==
    /\ self_max_retries \in 0..MaxFetchRetries
    /\ base_delay = DefaultBaseDelay
    /\ expected_urls \in 0..MaxExpected
    /\ max_retries \in 0..MaxAttempts
    /\ IdleRequest
    /\ retry_count = 0
    /\ best_result = <<>>
    /\ car_urls = {}
    /\ wait_delay = 0 /\ waits = 0 /\ largest = 0 /\ last_size = 0
    /\ caught = {} /\ handled = "none" /\ failed_fetches = 0
    /\ pc = "loop" /\ ret = <<>> /\ escaped = "none" /\ fetches = 0
    /\ IdleInfo /\ IdleNorm /\ IdleArgs /\ IdleRun

Next ==
    \/ AttemptStart
    \/ AttemptFetch
    \/ MakeRequestSleep
    \/ MakeRequestGet
    \/ FetchFailed
    \/ ParseLdJson
    \/ ParseDom
    \/ ParseNextData
    \/ Tally
    \/ Exhausted

Spec == Init /\ [][Next]_vars

----------------------------------------------------------------------------
(* get_car_info.  A url is the ad number its -<digits>.htm part carries.   *)
(* The embedded state of a detail page is the chain of values under the    *)
(* keys props, initialState, adDetails, byID, <ad number>, attributes (each *)
(* an object, no object, or missing from the object above it) and the two  *)
(* attribute collections under attributes.                                 *)

Absent == "<absent>"      \* a key the object does not have
NoAd == "none"            \* a url without -<digits>.htm

InfoUrls == [ad : {NoAd, "101"}]

\* An entry of categoryParams or of a group's params: an object with some of
\* the keys of a RawAttribute, or a value that is no object.
AttrObjects ==
    [obj : {TRUE}, realValue : {Absent}, id : {"price", "ads_id", Absent},
     value : {"a", Absent}, label : {Absent}]
NotObject ==
    [obj |-> FALSE, realValue |-> Absent, id |-> Absent, value |-> Absent, label |-> Absent]
ParamEntries == AttrObjects \cup {NotObject}
ParamLists == SeqsUpTo(ParamEntries, MaxParams)

\* A value that should be a list: missing, no list, or the list.
NoList(t) == [t |-> t, items |-> <<>>]
CategoryParams == {NoList("missing"), NoList("null")} \cup [t : {"list"}, items : ParamLists]

\* A group of mcdParams: an object with or without params, or no object.
McdGroups ==
    [obj : {TRUE}, params : {NoList("missing"), NoList("null")} \cup [t : {"list"}, items : ParamLists]]
        \cup [obj : {FALSE}, params : {NoList("missing")}]
McdParams ==
    {[t |-> "missing", groups |-> <<>>], [t |-> "null", groups |-> <<>>]}
        \cup [t : {"list"}, groups : {<<>>} \cup {<<g>> : g \in McdGroups}]

Segments == <<"props", "initialState", "adDetails", "byID", "ad", "attributes">>

\* The chains: objects down to some depth, then a key that is missing or
\* holds no object, and nothing below it.
Chains ==
    {[i \in 1..Len(Segments) |-> "object"]}
        \cup {[i \in 1..Len(Segments) |->
                  IF i < k THEN "object" ELSE IF i = k THEN held ELSE "missing"] :
              k \in 1..Len(Segments), held \in {"missing", "null"}}

FullChain(chain) == \A i \in 1..Len(Segments) : chain[i] = "object"

NoCategoryParams == NoList("missing")
NoMcdParams == [t |-> "missing", groups |-> <<>>]
EmptyChain == [i \in 1..Len(Segments) |-> "missing"]

\* What a fetched detail page embeds: the script tag found (if any), what
\* its string is, and the state it parses to.
DetailPages ==
    [script : {"absent"}, payload : {"none"}, top : {"null"}, chain : {EmptyChain},
     categoryParams : {NoCategoryParams}, mcdParams : {NoMcdParams}]
    \cup
    [script : {"__NEXT_DATA__", "application/json"}, payload : {"no_string", "malformed"},
     top : {"null"}, chain : {EmptyChain},
     categoryParams : {NoCategoryParams}, mcdParams : {NoMcdParams}]
    \cup
    [script : {"__NEXT_DATA__", "application/json"}, payload : {"json"},
     top : {"null"}, chain : {EmptyChain},
     categoryParams : {NoCategoryParams}, mcdParams : {NoMcdParams}]
    \cup
    [script : {"__NEXT_DATA__", "application/json"}, payload : {"json"},
     top : {"object"}, chain : {c \in Chains : ~FullChain(c)},
     categoryParams : {NoCategoryParams}, mcdParams : {NoMcdParams}]
    \cup
    [script : {"__NEXT_DATA__", "application/json"}, payload : {"json"},
     top : {"object"}, chain : {c \in Chains : FullChain(c)},
     categoryParams : CategoryParams, mcdParams : McdParams]

UnfetchedPage ==
    [script |-> "unfetched", payload |-> "none", top |-> "null", chain |-> EmptyChain,
     categoryParams |-> NoCategoryParams, mcdParams |-> NoMcdParams]

\* A computation ends with a value or with an exception.
Value(v) == [exc |-> "none", val |-> v]
Raise(e) == [exc |-> e, val |-> <<>>]

DigNoDefault(cur, held) ==
    IF cur = "null" THEN "AttributeError"
    ELSE IF cur = "empty" THEN "null"
    ELSE IF held = "missing" THEN "null"
    ELSE IF held = "null" THEN "null" ELSE "object"

\* cur.get(key, {}), for cur an object of the page ("object"), the default
\* {} of an earlier get ("empty") or no object ("null"); held is what the
\* page's object holds under key. AttributeError when cur is no object.
Dig(cur, held) ==
    IF cur = "null" THEN "AttributeError"
    ELSE IF cur = "empty" THEN "empty"
    ELSE IF held = "missing" THEN "empty"
    ELSE IF held = "null" THEN "null" ELSE "object"

\* The gets of lines 220-221 and the get of 'attributes', from data on.
RECURSIVE DigChain(_, _, _)
DigChain(cur, chain, i) ==
    IF cur = "AttributeError" \/ i > Len(Segments) THEN cur
    ELSE DigChain(Dig(cur, chain[i]), chain, i + 1)

\* params.get(key, '')
GetOrEmpty(field) == IF field = Absent THEN "" ELSE field

\* The inner loop of parse_mcdparams, lines 178-184.
RECURSIVE AppendParams(_, _)
AppendParams(items, other_dets) ==
    IF items = <<>> THEN Value(other_dets)
    ELSE LET params == Head(items) IN
         IF ~params.obj THEN Raise("AttributeError")
         ELSE AppendParams(Tail(items),
                  Append(other_dets,
                         [obj |-> TRUE,
                          realValue |-> GetOrEmpty(params.realValue),
                          id |-> GetOrEmpty(params.id),
                          value |-> GetOrEmpty(params.value),
                          label |-> GetOrEmpty(params.label)]))

\* The outer loop of parse_mcdparams, lines 177-178.
RECURSIVE AppendGroups(_, _)
AppendGroups(groups, other_dets) ==
    IF groups = <<>> THEN Value(other_dets)
    ELSE LET group == Head(groups) IN
         IF ~group.obj THEN Raise("AttributeError")
         ELSE IF group.params.t = "null" THEN Raise("TypeError")
         ELSE LET r == AppendParams(group.params.items, other_dets) IN
              IF r.exc # "none" THEN r ELSE AppendGroups(Tail(groups), r.val)

\* parse_mcdparams(car_mcdparams), lines 174-185; car_mcdparams is the list
\* of the page, the default [] or no list.
ParseMcdparams(car_mcdparams) ==
    IF car_mcdparams.t = "null" THEN Raise("TypeError")
    ELSE AppendGroups(car_mcdparams.groups, <<>>)

DictIdBlank(car_ads_no) ==
    [obj |-> TRUE, realValue |-> "", id |-> "ads_id", value |-> "", label |-> "id ads"]

\* dict_id, lines 213-218.
DictId(car_ads_no) ==
    [obj |-> TRUE, realValue |-> "", id |-> "ads_id", value |-> car_ads_no,
     label |-> "id ads"]

\* Lines 205-231 of get_car_info on the fetched page: the value returned, or
\* the exception raised inside the try block.
CarInfo(u, p) ==
    IF p.script = "absent" THEN Value([none |-> TRUE, attrs |-> <<>>])
    ELSE IF p.payload = "no_string" THEN Raise("TypeError")
    ELSE IF p.payload = "malformed" THEN Raise("JSONDecodeError")
    ELSE IF u.ad = NoAd THEN Raise("AttributeError")
    ELSE LET attributes == DigChain(p.top, p.chain, 1) IN
         IF attributes \in {"AttributeError", "null"} THEN Raise("AttributeError")
         ELSE LET attrs_read ==
                      IF attributes = "empty" THEN [t |-> "list", items |-> <<>>]
                      ELSE IF p.categoryParams.t = "missing" THEN [t |-> "list", items |-> <<>>]
                      ELSE p.categoryParams
                  mcdparams_read ==
                      IF attributes = "empty" THEN [t |-> "list", groups |-> <<>>]
                      ELSE IF p.mcdParams.t = "missing" THEN [t |-> "list", groups |-> <<>>]
                      ELSE p.mcdParams
                  mcd_params == ParseMcdparams(mcdparams_read)
              IN
              IF mcd_params.exc # "none" THEN mcd_params
              ELSE IF attrs_read.t = "null" THEN Raise("TypeError")
              ELSE Value([none |-> FALSE,
                          attrs |-> attrs_read.items \o <<DictId(u.ad)>> \o mcd_params.val])

InfoCatchesRequestOnly(e) == IsRequestException(e)

\* except Exception as e, line 233
InfoCatches(e) == e \in Exceptions

None == [none |-> TRUE, attrs |-> <<>>]

\* Lines 233-235: log and return None; an exception the clause does not
\* catch leaves get_car_info.
InfoExcept(e) ==
    IF InfoCatches(e)
    THEN /\ ret' = None
         /\ pc' = "done"
         /\ handled' = e
         /\ UNCHANGED escaped
    ELSE /\ pc' = "raised"
         /\ escaped' = e
         /\ UNCHANGED <<ret, handled>>

\* Line 202: the call of _make_request.
InfoCall ==
    /\ pc = "info"
    /\ CallMakeRequest
    /\ fetches' = fetches + 1
    /\ pc' = "info_fetch"
    /\ UNCHANGED <<ret, escaped>>
    /\ UNCHANGED <<cfgvars, runvars, total_requests, urlvars, infovars, normvars>>

\* _make_request raised: the except clause.
InfoFetchFailed ==
    /\ pc = "info_fetch"
    /\ rq = "raised"
    /\ InfoExcept(rq_raised.exc)
    /\ LeaveMakeRequest
    /\ failed_fetches' = failed_fetches + 1
    /\ UNCHANGED <<retry_count, best_result, car_urls, wait_delay, waits, largest>>
    /\ UNCHANGED <<last_size, caught, fetches>>
    /\ UNCHANGED <<cfgvars, runvars, total_requests, infovars, normvars>>

\* Lines 203-231 on the response, and the except clause for what they raise.
InfoParse ==
    /\ pc = "info_fetch"
    /\ rq = "returned"
    /\ LeaveMakeRequest
    /\ \E p \in DetailPages :
          LET r == CarInfo(url, p) IN
          /\ page' = p
          /\ IF r.exc = "none"
             THEN /\ ret' = r.val
                  /\ pc' = "done"
                  /\ UNCHANGED <<escaped, handled>>
             ELSE InfoExcept(r.exc)
    /\ UNCHANGED <<retry_count, best_result, car_urls, wait_delay, waits, largest>>
    /\ UNCHANGED <<last_size, caught, failed_fetches, fetches, url>>
    /\ UNCHANGED <<cfgvars, runvars, total_requests, normvars>>

\* One call get_car_info(url).
InitInfo ==
    /\ self_max_retries \in 0..MaxFetchRetries
    /\ base_delay = DefaultBaseDelay
    /\ IdleRequest
    /\ IdleUrls
    /\ url \in InfoUrls
    /\ page = UnfetchedPage
    /\ pc = "info" /\ ret = None /\ escaped = "none" /\ fetches = 0
    /\ IdleNorm /\ IdleArgs /\ IdleRun

NextInfo ==
    \/ InfoCall
    \/ MakeRequestSleep
    \/ MakeRequestGet
    \/ InfoFetchFailed
    \/ InfoParse

SpecInfo == InitInfo /\ [][NextInfo]_vars

----------------------------------------------------------------------------
(* scrape_cars: the normalization loop, lines 274-279. *)

\* self.keys, lines 39-50.
Keys ==
    {"price", "location", "condition", "make", "model", "car_type", "transmission",
     "engine_capacity", "mileage", "manufactured_date", "ads_id", "family", "variant",
     "series", "style", "seat", "country_origin", "cc", "comp_ratio", "kw", "torque",
     "engine", "fuel_type", "length", "width", "height", "wheelbase", "kerbwt",
     "fueltk", "brake_front", "brake_rear", "suspension_front", "suspension_rear",
     "steering", "tyres_front", "tyres_rear", "wheel_rim_front", "wheel_rim_rear"}

\* The entries an attribute sequence is drawn from: RawAttributes with a
\* known id, with an id outside self.keys, without id, without value, and a
\* value that is no object.
NormItems ==
    [obj : {TRUE}, realValue : {""}, id : {"price", "ads_id", "colour", Absent},
     value : {"a", "b"}, label : {""}]
        \cup {[obj |-> TRUE, realValue |-> "", id |-> "price", value |-> Absent, label |-> ""],
              NotObject}
AttrSeqs == SeqsUpTo(NormItems, MaxAttrs)

InKeysAlways(id) == TRUE

\* item['id'] in self.keys
InKeys(id) == id \in Keys

AssignIfAbsent(d, k, v) ==
    [x \in DOMAIN d \cup {k} |-> IF x \in DOMAIN d THEN d[x] ELSE v]

\* car_dict[item['id']] = item['value']
Assign(d, k, v) == [x \in DOMAIN d \cup {k} |-> IF x = k THEN v ELSE d[x]]

\* The body of the inner loop for one item, lines 277-278: the record after
\* it, or the exception of a subscript.
NormalizeStep(item, d) ==
    IF ~item.obj THEN Raise("TypeError")
    ELSE IF item.id = Absent THEN Raise("KeyError")
    ELSE IF InKeys(item.id)
    THEN IF item.value = Absent THEN Raise("KeyError")
         ELSE Value(Assign(d, item.id, item.value))
    ELSE Value(d)

\* for item in car_attrs: one item. The loop stands in no try block: what a
\* subscript raises leaves scrape_cars.
NormalizeItem ==
    /\ pc = "normalize"
    /\ idx < Len(car_attrs)
    /\ LET r == NormalizeStep(car_attrs[idx + 1], car_dict) IN
          IF r.exc = "none"
          THEN /\ car_dict' = r.val
               /\ idx' = idx + 1
               /\ UNCHANGED <<pc, escaped>>
          ELSE /\ pc' = "raised"
               /\ escaped' = r.exc
               /\ UNCHANGED <<car_dict, idx>>
    /\ UNCHANGED <<car_attrs, ret, fetches>>
    /\ UNCHANGED <<cfgvars, runvars, rqvars, total_requests, urlvars, infovars>>

\* processed_data.append(car_dict)
NormalizeDone ==
    /\ pc = "normalize"
    /\ idx = Len(car_attrs)
    /\ ret' = car_dict
    /\ pc' = "done"
    /\ UNCHANGED <<escaped, fetches>>
    /\ UNCHANGED <<cfgvars, runvars, rqvars, total_requests, urlvars, infovars, normvars>>

\* The normalization of one attribute sequence.
InitNorm ==
    /\ self_max_retries = 0
    /\ base_delay = DefaultBaseDelay
    /\ IdleRequest /\ IdleUrls /\ IdleInfo /\ IdleArgs /\ IdleRun
    /\ car_attrs \in AttrSeqs
    /\ idx = 0
    /\ car_dict = <<>>
    /\ pc = "normalize" /\ ret = <<>> /\ escaped = "none" /\ fetches = 0

NextNorm == NormalizeItem \/ NormalizeDone

SpecNorm == InitNorm /\ [][NextNorm]_vars

----------------------------------------------------------------------------
(* scrape_cars on one listing url: get_car_info, the test of its result and *)
(* the normalization of the sequence it returned.                          *)

KeepsResultNever(result) == FALSE

\* if result: (line 264). None and an empty list are false.
KeepsResult(result) == ~result.none /\ result.attrs # <<>>

\* Lines 263-265 and 274-275: the result of get_car_info is kept and is the
\* car_attrs of the normalization; a result that is not kept yields no record.
RecordStart ==
    /\ pc = "done"
    /\ car_attrs = <<>>
    /\ KeepsResult(ret)
    /\ car_data' = Append(car_data, ret.attrs)
    /\ results' = Append(results, ret)
    /\ car_attrs' = ret.attrs
    /\ idx' = 0
    /\ car_dict' = <<>>
    /\ pc' = "normalize"
    /\ UNCHANGED <<ret, escaped, fetches>>
    /\ UNCHANGED <<argvars, page_urls, page_i, run_car_urls, car_i, processed_data, page_results>>
    /\ UNCHANGED <<cfgvars, rqvars, total_requests, urlvars, infovars>>

NextRecord ==
    \/ InfoCall
    \/ MakeRequestSleep
    \/ MakeRequestGet
    \/ InfoFetchFailed
    \/ InfoParse
    \/ RecordStart
    \/ NormalizeItem
    \/ NormalizeDone

SpecRecord == InitInfo /\ [][NextRecord]_vars

----------------------------------------------------------------------------
(* get_page_urls.  A page url is the segments of its path and the number   *)
(* after ?o=.                                                               *)

States == {"", "Selangor", "johor"}
Brands == {"", "none", "None", "toyota", "Toyota"}

\* str.lower() on the strings above.
Lower(s) ==
    CASE s = "Selangor" -> "selangor"
      [] s = "None" -> "none"
      [] s = "Toyota" -> "toyota"
      [] OTHER -> s

PageRangeExclusive(first, last) == first..(last - 1)

\* range(start, end + 1)
PageRange(first, last) == first..last

\* Lines 189-197.
GetPageUrls(st, br, first, last) ==
    LET region == IF st # "" THEN Lower(st) ELSE "malaysia"
        prefix == IF Lower(br) = "none" \/ br = ""
                  THEN <<region, "cars-for-sale">>
                  ELSE <<region, "cars-for-sale", br>>
        n == Cardinality(PageRange(first, last))
    IN [i \in 1..n |-> [path |-> prefix, o |-> first + i - 1]]

\* One call get_page_urls(state, brand, start, end).
CallGetPageUrls ==
    /\ pc = "pages"
    /\ ret' = GetPageUrls(state, brand, start, end)
    /\ pc' = "done"
    /\ UNCHANGED <<escaped, fetches>>
    /\ UNCHANGED <<cfgvars, runvars, rqvars, total_requests, urlvars, infovars, normvars>>

InitPages ==
    /\ self_max_retries = 0
    /\ base_delay = DefaultBaseDelay
    /\ IdleRequest /\ IdleUrls /\ IdleInfo /\ IdleNorm /\ IdleRun
    /\ state \in States
    /\ brand \in Brands
    /\ start \in 1..MaxPage
    /\ end \in 1..MaxPage
    /\ pc = "pages" /\ ret = <<>> /\ escaped = "none" /\ fetches = 0

NextPages == CallGetPageUrls

SpecPages == InitPages /\ [][NextPages]_vars

----------------------------------------------------------------------------
(* scrape_cars, the whole run.  A step is one attempt of get_car_urls, one   *)
(* call of get_car_info or the normalization of one sequence; a call of     *)
(* _make_request is taken with what it ends in.                            *)

\* What a call of _make_request ends in: its return ("none") or the
\* exception that leaves it.
FetchResults == {"none"} \cup RequestExceptions \cup {"OtherException"}

\* re.search(r'-(\d+)\.htm', url).group(1): the listing document of path 1
\* is ad 101, the document of path 2 is ad 102, path 3 has no ad number.
AdOf(l) == IF l.n = 1 THEN "101" ELSE IF l.n = 2 THEN "102" ELSE NoAd

\* The listing pages of a run: no listing at all; one listing in the ld+json
\* block and another in __NEXT_DATA__; the same with a __NEXT_DATA__ script
\* that has no string.
NoCards == [listing_card |-> <<>>, listing_item |-> <<>>, product_card |-> <<>>]
AbsentBlock == [shape |-> "absent", items |-> <<>>]
ItemsBlock(l) == [shape |-> "items", items |-> <<[kind |-> "url", link |-> l]>>]
RunListingPages ==
    {[ld |-> AbsentBlock, dom |-> NoCards, nd |-> AbsentBlock],
     [ld |-> ItemsBlock(Abs(1)), dom |-> NoCards, nd |-> ItemsBlock(Abs(2))],
     [ld |-> ItemsBlock(Abs(1)), dom |-> NoCards,
      nd |-> [shape |-> "no_string", items |-> <<>>]]}

\* Lines 111-149 on one fetched page: the set car_urls after the three
\* strategies, or the exception that leaves the try block of the attempt.
AttemptUrls(p) ==
    LET r1 == Method1(p.ld, {}) IN
    IF ~Contained(r1, Method1Catches(r1.exc)) THEN Raise(r1.exc)
    ELSE LET r2 == Method2(p.dom, r1.urls)
             r3 == Method3(p.nd, r2.urls)
         IN IF ~Contained(r3, Method3Catches(r3.exc)) THEN Raise(r3.exc)
            ELSE Value(r3.urls)

\* The detail pages of a run: a price among the category parameters and a
\* make among the mcd parameters; a category parameter without id.
ParamOf(id, value) ==
    [obj |-> TRUE, realValue |-> Absent, id |-> id, value |-> value, label |-> Absent]
FullPage(category, groups) ==
    [script |-> "__NEXT_DATA__", payload |-> "json", top |-> "object",
     chain |-> [i \in 1..Len(Segments) |-> "object"],
     categoryParams |-> [t |-> "list", items |-> category],
     mcdParams |-> [t |-> "list", groups |-> groups]]
RunDetailPages ==
    {FullPage(<<ParamOf("price", "a")>>,
              <<[obj |-> TRUE, params |-> [t |-> "list", items |-> <<ParamOf("make", "a")>>]]>>),
     FullPage(<<ParamOf(Absent, "a")>>, <<>>)}

\* get_car_info(url) with what its fetch ends in and the page it gets: the
\* value returned, or the exception that leaves the call.
GetCarInfo(u, f, p) ==
    LET r == IF f # "none" THEN Raise(f) ELSE CarInfo([ad |-> AdOf(u)], p) IN
    IF r.exc = "none" THEN r
    ELSE IF InfoCatches(r.exc) THEN Value(None)
    ELSE r

ExtendUnique(list, urls) ==
    list \o SelectSeq(urls, LAMBDA u : \A i \in 1..Len(list) : list[i] # u)

\* car_urls.extend(urls)
Extend(list, urls) == list \o urls

\* The inner loop of lines 276-278 on one sequence.
RECURSIVE NormalizeAll(_, _)
NormalizeAll(items, d) ==
    IF items = <<>> THEN Value(d)
    ELSE LET r == NormalizeStep(Head(items), d) IN
         IF r.exc # "none" THEN r ELSE NormalizeAll(Tail(items), r.val)

\* Line 242: page_urls = self.get_page_urls(state, brand, start, end)
RunStart ==
    /\ pc = "run"
    /\ page_urls' = GetPageUrls(state, brand, start, end)
    /\ pc' = "collect"
    /\ UNCHANGED <<argvars, page_i, run_car_urls, car_i, car_data, processed_data>>
    /\ UNCHANGED <<page_results, results, ret, escaped, fetches>>
    /\ UNCHANGED <<cfgvars, rqvars, total_requests, urlvars, infovars, normvars>>

\* get_car_urls returns urls to the loop of line 247: lines 248-249.
PageReturns(urls) ==
    /\ run_car_urls' = Extend(run_car_urls, urls)
    /\ page_results' = Append(page_results, urls)
    /\ page_i' = page_i + 1
    /\ retry_count' = 0
    /\ best_result' = <<>>

\* One attempt of the get_car_urls call for the next page url, lines 101-168.
RunAttempt ==
    /\ pc = "collect"
    /\ page_i < Len(page_urls)
    /\ MoreAttempts
    /\ fetches' = fetches + 1
    /\ \E f \in FetchResults, p \in RunListingPages :
          LET r == IF f # "none" THEN Raise(f) ELSE AttemptUrls(p) IN
          /\ failed_fetches' = failed_fetches + (IF f # "none" THEN 1 ELSE 0)
          /\ IF r.exc # "none"
             THEN IF OuterCatches(r.exc)
                  THEN /\ retry_count' = retry_count + 1
                       /\ UNCHANGED <<best_result, run_car_urls, page_results, page_i>>
                       /\ UNCHANGED <<pc, escaped>>
                  ELSE /\ pc' = "raised"
                       /\ escaped' = r.exc
                       /\ UNCHANGED <<retry_count, best_result, run_car_urls>>
                       /\ UNCHANGED <<page_results, page_i>>
             ELSE \E result_urls \in ListsOf(r.val) :
                     /\ IF ReachedExpected(result_urls)
                        THEN PageReturns(result_urls)
                        ELSE /\ best_result' = KeepBest(result_urls, best_result)
                             /\ retry_count' = retry_count + 1
                             /\ UNCHANGED <<run_car_urls, page_results, page_i>>
                     /\ UNCHANGED <<pc, escaped>>
    /\ UNCHANGED <<argvars, page_urls, car_i, car_data, processed_data, results, ret>>
    /\ UNCHANGED <<car_urls, wait_delay, waits, largest, last_size, caught, handled>>
    /\ UNCHANGED <<cfgvars, rqvars, total_requests, infovars, normvars>>

\* Lines 170-172: the attempts of the call are used up; it returns best_result.
RunPageExhausted ==
    /\ pc = "collect"
    /\ page_i < Len(page_urls)
    /\ ~MoreAttempts
    /\ PageReturns(best_result)
    /\ UNCHANGED <<argvars, page_urls, car_i, car_data, processed_data, results>>
    /\ UNCHANGED <<car_urls, wait_delay, waits, largest, last_size, caught, handled>>
    /\ UNCHANGED <<failed_fetches, pc, ret, escaped, fetches>>
    /\ UNCHANGED <<cfgvars, rqvars, total_requests, infovars, normvars>>

\* Lines 257-261: the first loop is over.
RunPagesDone ==
    /\ pc = "collect"
    /\ page_i = Len(page_urls)
    /\ pc' = "cars"
    /\ UNCHANGED <<ret, escaped, fetches>>
    /\ UNCHANGED <<cfgvars, runvars, rqvars, total_requests, urlvars, infovars, normvars>>

\* Lines 262-269: get_car_info for the next listing url and the test of its result.
RunCarInfo ==
    /\ pc = "cars"
    /\ car_i < Len(run_car_urls)
    /\ fetches' = fetches + 1
    /\ \E f \in FetchResults, p \in RunDetailPages :
          LET r == GetCarInfo(run_car_urls[car_i + 1], f, p) IN
          /\ failed_fetches' = failed_fetches + (IF f # "none" THEN 1 ELSE 0)
          /\ IF r.exc # "none"
             THEN /\ pc' = "raised"
                  /\ escaped' = r.exc
                  /\ UNCHANGED <<car_data, results, car_i>>
             ELSE /\ car_data' = IF KeepsResult(r.val) THEN Append(car_data, r.val.attrs)
                                 ELSE car_data
                  /\ results' = Append(results, r.val)
                  /\ car_i' = car_i + 1
                  /\ UNCHANGED <<pc, escaped>>
    /\ UNCHANGED <<argvars, page_urls, page_i, run_car_urls, processed_data, page_results>>
    /\ UNCHANGED <<retry_count, best_result, car_urls, wait_delay, waits, largest>>
    /\ UNCHANGED <<last_size, caught, handled, ret>>
    /\ UNCHANGED <<cfgvars, rqvars, total_requests, infovars, normvars>>

\* Lines 271-273: the second loop is over.
RunCarsDone ==
    /\ pc = "cars"
    /\ car_i = Len(run_car_urls)
    /\ pc' = "normalize_all"
    /\ UNCHANGED <<ret, escaped, fetches>>
    /\ UNCHANGED <<cfgvars, runvars, rqvars, total_requests, urlvars, infovars, normvars>>

\* Lines 274-280: the record of the next sequence of car_data.
RunNormalize ==
    /\ pc = "normalize_all"
    /\ Len(processed_data) < Len(car_data)
    /\ LET r == NormalizeAll(car_data[Len(processed_data) + 1], <<>>) IN
          IF r.exc = "none"
          THEN /\ processed_data' = Append(processed_data, r.val)
               /\ UNCHANGED <<pc, escaped>>
          ELSE /\ pc' = "raised"
               /\ escaped' = r.exc
               /\ UNCHANGED processed_data
    /\ UNCHANGED <<argvars, page_urls, page_i, run_car_urls, car_i, car_data>>
    /\ UNCHANGED <<page_results, results, ret, fetches>>
    /\ UNCHANGED <<cfgvars, rqvars, total_requests, urlvars, infovars, normvars>>

\* Line 282: return pd.DataFrame(processed_data), one row per record, in order.
RunReturn ==
    /\ pc = "normalize_all"
    /\ Len(processed_data) = Len(car_data)
    /\ ret' = processed_data
    /\ pc' = "done"
    /\ UNCHANGED <<escaped, fetches>>
    /\ UNCHANGED <<cfgvars, runvars, rqvars, total_requests, urlvars, infovars, normvars>>

\* One call scrape_cars(state, brand, start, end, expected_urls_per_page).
InitRun ==
    /\ self_max_retries = 0
    /\ base_delay = DefaultBaseDelay
    /\ expected_urls \in {2, DefaultExpected}
    /\ max_retries = DefaultMaxAttempts
    /\ IdleRequest
    /\ retry_count = 0
    /\ best_result = <<>>
    /\ car_urls = {}
    /\ wait_delay = 0 /\ waits = 0 /\ largest = 0 /\ last_size = 0
    /\ caught = {} /\ handled = "none" /\ failed_fetches = 0
    /\ IdleInfo /\ IdleNorm /\ IdleRun
    /\ state = "" /\ brand = ""
    /\ start \in 1..MaxRunPages
    /\ end \in 1..MaxRunPages
    /\ pc = "run" /\ ret = <<>> /\ escaped = "none" /\ fetches = 0

NextRun ==
    \/ RunStart
    \/ RunAttempt
    \/ RunPageExhausted
    \/ RunPagesDone
    \/ RunCarInfo
    \/ RunCarsDone
    \/ RunNormalize
    \/ RunReturn

SpecRun == InitRun /\ [][NextRun]_vars

----------------------------------------------------------------------------
(* Claims about get_car_urls, checked under Spec. *)

Links == {Abs(1), Rel(1), Abs(2), Abs(3), Rel(3)}

\* C1: get_car_urls never raises. Whatever the fetches do (a response, an
\* HTTP error, a transport error, any other exception) and whatever the
\* embedded blocks hold, no exception leaves the call, the call is never
\* stuck before its return, and what it returns is a list of links.
C1_NeverRaises ==
    /\ escaped = "none"
    /\ pc # "raised"
    /\ pc = "done" \/ ENABLED Next
    /\ pc = "done" => \A i \in 1..Len(ret) : ret[i] \in Links

\* The last attempt died of an exception that is no RequestException, and the
\* call returned all the same.
C1_Witness ==
    /\ pc = "done"
    /\ handled \in {"OtherException", "TypeError", "AttributeError"}
    /\ failed_fetches < fetches
    /\ escaped = "none"

\* C2: when the set of an attempt has reached expected_urls at the threshold
\* test, the call returns that set in this very step, with no further sleep,
\* fetch or request; and nothing happens after a return.
C2_ReturnsAtThreshold ==
    [][/\ pc # "done"
       /\ (pc = "tally" /\ Cardinality(car_urls) >= expected_urls) =>
             /\ pc' = "done"
             /\ ret' \in ListsOf(car_urls)
             /\ retry_count' = retry_count
             /\ fetches' = fetches
             /\ waits' = waits
             /\ total_requests' = total_requests]_vars

\* The threshold was first reached by the second attempt, which was returned.
C2_Witness ==
    /\ pc = "done"
    /\ retry_count = 1
    /\ max_retries = 2
    /\ expected_urls = 2
    /\ Len(ret) = 2
    /\ fetches = 2
    /\ waits = 1

\* C3: when the attempts are exhausted, the returned list is as long as the
\* longest result_urls of any attempt (an attempt that raised has none), so
\* it is empty only if no attempt collected anything.
C3_BestOfAllAttempts ==
    (pc = "done" /\ retry_count >= max_retries) =>
        /\ Len(ret) = largest
        /\ ret = best_result
        /\ \A i, j \in 1..Len(ret) : ret[i] = ret[j] => i = j

\* Two attempts, the later one collecting fewer links than the earlier one.
C3_Witness ==
    /\ pc = "done"
    /\ retry_count = 2
    /\ max_retries = 2
    /\ last_size < largest
    /\ Len(ret) = largest

\* C4: when every _make_request call of the call raised, get_car_urls made
\* exactly max_retries attempts, returns an empty list and raises nothing.
C4_AllFetchesFail ==
    (pc \in {"done", "raised"} /\ failed_fetches = fetches) =>
        /\ pc = "done"
        /\ escaped = "none"
        /\ fetches = max_retries
        /\ ret = <<>>

\* Two attempts, each exhausting the one retry of its _make_request call.
C4_Witness ==
    /\ pc = "done"
    /\ max_retries = 2
    /\ self_max_retries = 1
    /\ failed_fetches = 2
    /\ fetches = 2
    /\ total_requests = 4
    /\ ret = <<>>

\* C16: every link get_car_urls returns is absolute and is an HTML document,
\* whichever strategy added it and however the page wrote it.
C16_AbsoluteHtmlLinks ==
    pc = "done" => \A i \in 1..Len(ret) : ret[i].abs /\ MatchesHtml(ret[i])

\* C18: the strategies of one attempt are isolated. Whatever the ld+json
\* block of the fetched page holds, the attempt goes on to the second
\* strategy; whatever the __NEXT_DATA__ block holds, the links the first two
\* strategies collected are in the set that reaches the tally of the attempt.
C18_StrategiesIsolated ==
    [][/\ (pc = "fetch" /\ rq = "returned") => pc' = "method2"
       /\ pc = "method3" => (pc' = "tally" /\ car_urls \subseteq car_urls')]_vars

\* The steps an attempt is in after its call of _make_request.
InAttempt == pc \in {"fetch", "method2", "method3", "tally"}

\* What is left of a call at most: per attempt left, the steps of one attempt
\* with all the requests of its _make_request call.
AttemptSpan == 2 * self_max_retries + 10
RequestRank ==
    2 * (self_max_retries - rq_retry)
        + (IF rq = "call" THEN 2 ELSE IF rq = "slept" THEN 1 ELSE 0)
Rank ==
    IF pc \in {"done", "raised"} THEN 0
    ELSE (max_retries - retry_count) * AttemptSpan
            + (CASE pc = "loop" -> AttemptSpan - 1
                 [] pc = "attempt" -> AttemptSpan - 2
                 [] pc = "fetch" -> 4 + RequestRank
                 [] pc = "method2" -> 3
                 [] pc = "method3" -> 2
                 [] pc = "tally" -> 1)

\* C20: one call of get_car_urls terminates within its budget. Every attempt
\* makes one _make_request call of at most self.max_retries + 1 requests, the
\* attempts number at most max_retries, so the requests number at most
\* max_retries * (self.max_retries + 1); an attempt that does not return ends
\* with retry_count one higher, with or without an exception; every step brings
\* the call nearer to its end, and the call is never stuck before it.
C20_TerminatesWithinBudget ==
    /\ [](/\ retry_count <= max_retries
          /\ fetches <= max_retries
          /\ pc \in {"loop", "attempt"} => fetches = retry_count
          /\ InAttempt => fetches = retry_count + 1
          /\ pc = "done" => fetches \in {retry_count, retry_count + 1}
          /\ rq_requests <= self_max_retries + 1
          /\ total_requests <= max_retries * (self_max_retries + 1)
          /\ Rank >= 0
          /\ pc = "done" \/ ENABLED Next)
    /\ [][/\ Rank' < Rank
          /\ (InAttempt /\ pc' = "loop") => retry_count' = retry_count + 1
          /\ pc' # "loop" => retry_count' = retry_count
          /\ fetches' \in {fetches, fetches + 1}
          /\ fetches' = fetches + 1 <=> pc' = "fetch" /\ pc = "attempt"]_vars

\* The whole budget is spent: two attempts of two requests each, one attempt
\* ended by its fetch failing, the other below the threshold.
C20_Witness ==
    /\ pc = "done"
    /\ max_retries = 2
    /\ self_max_retries = 1
    /\ total_requests = 4
    /\ fetches = 2
    /\ failed_fetches = 1
    /\ retry_count = 2

----------------------------------------------------------------------------
(* Claims about get_car_info, checked under SpecInfo. *)

\* Some entry of the list is no object.
HasNonObject(items) == \E i \in 1..Len(items) : ~items[i].obj

\* The mcdParams of the page cannot be flattened.
McdMisshaped(m) ==
    \/ m.t = "null"
    \/ \E i \in 1..Len(m.groups) :
          \/ ~m.groups[i].obj
          \/ m.groups[i].params.t = "null"
          \/ HasNonObject(m.groups[i].params.items)

\* Navigating the parsed state fails: a value on the path is no object, or
\* an attribute collection is no list or cannot be flattened.
NavigationFails(p) ==
    \/ p.top = "null"
    \/ \E i \in 1..Len(Segments) : p.chain[i] = "null"
    \/ p.categoryParams.t = "null"
    \/ McdMisshaped(p.mcdParams)

\* C7: get_car_info never raises. No exception leaves it and it is never
\* stuck before its return; it returns None when the fetch failed after its
\* retries, when the page has neither script block, when the payload is not
\* parsable, when the url carries no -<digits>.htm, and when navigating the
\* payload fails.
C7_InfoNeverRaises ==
    /\ escaped = "none"
    /\ pc # "raised"
    /\ pc = "done" \/ ENABLED NextInfo
    /\ (pc = "done" /\ failed_fetches = 1) => ret = None
    /\ (pc = "done" /\ failed_fetches = 0) =>
          /\ page.script = "absent" => ret = None
          /\ page.payload \in {"no_string", "malformed"} => ret = None
          /\ url.ad = NoAd => ret = None
          /\ NavigationFails(page) => ret = None

\* A url without ad number on a page whose payload parses: None, by the
\* AttributeError that the except clause took.
C7_Witness ==
    /\ pc = "done"
    /\ failed_fetches = 0
    /\ page.payload = "json"
    /\ page.top = "object"
    /\ url.ad = NoAd
    /\ handled = "AttributeError"
    /\ ret = None

\* A key of the path, or one of the two collections, or the params of a
\* group, is missing.
SomethingMissing(p) ==
    \/ \E i \in 1..Len(Segments) : p.chain[i] = "missing"
    \/ p.categoryParams.t = "missing"
    \/ p.mcdParams.t = "missing"
    \/ \E i \in 1..Len(p.mcdParams.groups) : p.mcdParams.groups[i].params.t = "missing"

\* A param of a group as a RawAttribute, missing fields empty.
Flattened(param) ==
    [obj |-> TRUE,
     realValue |-> IF param.realValue = Absent THEN "" ELSE param.realValue,
     id |-> IF param.id = Absent THEN "" ELSE param.id,
     value |-> IF param.value = Absent THEN "" ELSE param.value,
     label |-> IF param.label = Absent THEN "" ELSE param.label]

RECURSIVE FlattenedGroups(_)
FlattenedGroups(groups) ==
    IF groups = <<>> THEN <<>>
    ELSE [i \in 1..Len(Head(groups).params.items) |-> Flattened(Head(groups).params.items[i])]
             \o FlattenedGroups(Tail(groups))

\* C8: on a page whose state parses to an object whose path holds only
\* objects and lists where it holds anything, with an ad number in the url,
\* a missing key counts as empty: the result is not None and is the
\* category parameters the page has, then the ads_id attribute, then the
\* flattened mcd parameters the page has; it is the ads_id attribute alone
\* when a key of the path (the ad number under byID among them) is missing.
C8_MissingCountsAsEmpty ==
    (/\ pc = "done"
     /\ failed_fetches = 0
     /\ page.payload = "json"
     /\ url.ad # NoAd
     /\ ~NavigationFails(page)
     /\ SomethingMissing(page)) =>
        /\ ret.none = FALSE
        /\ ret.attrs = page.categoryParams.items
                           \o <<[obj |-> TRUE, realValue |-> "", id |-> "ads_id",
                                 value |-> url.ad, label |-> "id ads"]>>
                           \o FlattenedGroups(page.mcdParams.groups)
        /\ (\E i \in 1..Len(Segments) : page.chain[i] = "missing") => Len(ret.attrs) = 1

\* The ad number of the url is not a key of byID: the ads_id attribute alone.
C8_Witness ==
    /\ pc = "done"
    /\ page.payload = "json"
    /\ page.chain[4] = "object"
    /\ page.chain[5] = "missing"
    /\ url.ad = "101"
    /\ ret.none = FALSE
    /\ Len(ret.attrs) = 1
    /\ ret.attrs[1].id = "ads_id"
    /\ ret.attrs[1].value = "101"

----------------------------------------------------------------------------
(* Claims about the normalization, checked under SpecNorm. *)

\* The ids of the entries of the sequence that have one.
IdsOf(attrs) == {attrs[i].id : i \in 1..Len(attrs)} \ {Absent}

\* The place of the last entry with this id.
LastWith(attrs, id) ==
    CHOOSE i \in 1..Len(attrs) :
        /\ attrs[i].id = id
        /\ \A j \in (i + 1)..Len(attrs) : attrs[j].id # id

\* C9: the record has only keys of self.keys, at every point of its
\* construction; an id outside self.keys is never a key of it, and a key of
\* the finished record is the id of some entry of the sequence.
C9_OnlyKnownKeys ==
    /\ DOMAIN car_dict \subseteq Keys
    /\ \A i \in 1..Len(car_attrs) :
          car_attrs[i].id \notin Keys => car_attrs[i].id \notin DOMAIN car_dict
    /\ pc = "done" =>
          /\ DOMAIN ret \subseteq Keys \cap IdsOf(car_attrs)

\* A sequence with a known and an unknown id: the record has the known one only.
C9_Witness ==
    /\ pc = "done"
    /\ "colour" \in IdsOf(car_attrs)
    /\ "price" \in IdsOf(car_attrs)
    /\ DOMAIN ret = {"price"}

\* C10: the finished record maps every id of self.keys that occurs in the
\* sequence to the value of the last entry with that id.
C10_LastWriteWins ==
    pc = "done" =>
        \A id \in Keys \cap IdsOf(car_attrs) :
            /\ id \in DOMAIN ret
            /\ ret[id] = car_attrs[LastWith(car_attrs, id)].value

\* Two entries with the id ads_id and different values: the later one wins.
C10_Witness ==
    /\ pc = "done"
    /\ Len(car_attrs) = 3
    /\ car_attrs[1].id = "price"
    /\ car_attrs[2] = [obj |-> TRUE, realValue |-> "", id |-> "ads_id", value |-> "a", label |-> ""]
    /\ car_attrs[3] = [obj |-> TRUE, realValue |-> "", id |-> "ads_id", value |-> "b", label |-> ""]
    /\ ret["ads_id"] = "b"
    /\ DOMAIN ret = {"price", "ads_id"}

----------------------------------------------------------------------------
(* Claims about one listing's record, checked under SpecRecord. *)

\* C12: the normalization never fails. Once get_car_info has returned an
\* attribute sequence (the category parameters as the page delivered them, the
\* ads_id attribute, the flattened mcd parameters) and the loop runs on it, no
\* exception is raised and the loop is not left before its record.
C12_NormalizationNeverFails ==
    car_attrs # <<>> => (pc # "raised" /\ escaped = "none")

\* The values that the flattened mcd parameters of the page give the id ads_id.
McdAdsIds(p) ==
    SelectSeq(FlattenedGroups(p.mcdParams.groups), LAMBDA e : e.id = "ads_id")

\* C19 as stated: the record of a listing has the key ads_id with the ad
\* number of the listing's own url, whatever the parameters of the page.
C19_AdsIdIsOwnUrl ==
    (pc = "done" /\ car_attrs # <<>>) =>
        /\ "ads_id" \in DOMAIN ret
        /\ ret["ads_id"] = url.ad

\* C19 amended: the record of a listing has the key ads_id; its value is the
\* ad number of the listing's own url, whatever the category parameters hold,
\* unless a flattened mcd parameter has the id ads_id: then it is the value
\* of the last such parameter.
C19_AdsIdUnlessMcdOverrides ==
    (pc = "done" /\ car_attrs # <<>>) =>
        /\ "ads_id" \in DOMAIN ret
        /\ ret["ads_id"] =
              (IF McdAdsIds(page) = <<>> THEN url.ad
               ELSE McdAdsIds(page)[Len(McdAdsIds(page))].value)

\* A category parameter with the id ads_id and another value, no such mcd
\* parameter: the record has the ad number of the url.
C19_Witness ==
    /\ pc = "done"
    /\ car_attrs # <<>>
    /\ page.categoryParams.items = <<[obj |-> TRUE, realValue |-> Absent, id |-> "ads_id",
                                      value |-> "a", label |-> Absent]>>
    /\ McdAdsIds(page) = <<>>
    /\ url.ad = "101"
    /\ ret["ads_id"] = "101"

----------------------------------------------------------------------------
(* Claims about get_page_urls, checked under SpecPages. *)

\* C15: get_page_urls returns one url per page of start..end, ascending and
\* none when start > end; the urls of a call have one path, which begins with
\* malaysia for an empty state and with the lowercased state otherwise, and
\* has the brand as its third segment exactly when the brand is neither
\* empty nor none in some case; only the page number varies.
C15_OneUrlPerPage ==
    pc = "done" =>
        /\ Len(ret) = (IF start <= end THEN end - start + 1 ELSE 0)
        /\ \A i \in 1..Len(ret) : ret[i].o = start + i - 1
        /\ \A i, j \in 1..Len(ret) : ret[i].path = ret[j].path
        /\ \A i \in 1..Len(ret) :
              /\ ret[i].path[1] = (IF state = "" THEN "malaysia" ELSE Lower(state))
              /\ ret[i].path[2] = "cars-for-sale"
              /\ IF brand \in {"", "none", "None"}
                 THEN Len(ret[i].path) = 2
                 ELSE Len(ret[i].path) = 3 /\ ret[i].path[3] = brand

\* get_page_urls("", "", 2, 4): the pages 2, 3, 4 of the default region.
C15_Witness ==
    /\ pc = "done"
    /\ state = "" /\ brand = "" /\ start = 2 /\ end = 4
    /\ ret = <<[path |-> <<"malaysia", "cars-for-sale">>, o |-> 2],
               [path |-> <<"malaysia", "cars-for-sale">>, o |-> 3],
               [path |-> <<"malaysia", "cars-for-sale">>, o |-> 4]>>

----------------------------------------------------------------------------
(* Claims about the whole run, checked under SpecRun. *)

\* C11: scrape_cars never raises for a failure of a page or of a listing.
\* Whatever the fetches end in and whatever the pages hold, no exception
\* leaves the run and the run is never stuck before its return.
C11_RunNeverRaises ==
    /\ pc # "raised"
    /\ escaped = "none"
    /\ pc = "done" \/ ENABLED NextRun

RECURSIVE Flatten(_)
Flatten(lists) == IF lists = <<>> THEN <<>> ELSE Head(lists) \o Flatten(Tail(lists))

\* The results that are not None, in their order.
NonNull(rs) == SelectSeq(rs, LAMBDA r : ~r.none)

\* The record of a sequence: each known id that occurs, with the value of
\* its last occurrence.
RecordOf(attrs) ==
    [id \in Keys \cap IdsOf(attrs) |-> attrs[LastWith(attrs, id)].value]

\* C13: the listing urls are the results of get_car_urls for the pages,
\* concatenated in page order, repeats included; get_car_info is called once
\* per listing url in that order; car_data is its results that are not None,
\* in order, each being the sequence of its own url; the records are the
\* records of these sequences in order, and they are what the run returns.
C13_OneRecordPerResult ==
    /\ run_car_urls = Flatten(page_results)
    /\ Len(page_results) = page_i
    /\ Len(results) = car_i
    /\ car_data = [k \in 1..Len(NonNull(results)) |-> NonNull(results)[k].attrs]
    /\ \A i \in 1..Len(results) :
          ~results[i].none =>
              \E j \in 1..Len(results[i].attrs) :
                  /\ results[i].attrs[j].id = "ads_id"
                  /\ results[i].attrs[j].value = AdOf(run_car_urls[i])
    /\ Len(processed_data) <= Len(car_data)
    /\ \A k \in 1..Len(processed_data) : processed_data[k] = RecordOf(car_data[k])
    /\ pc = "done" =>
          /\ page_i = Len(page_urls)
          /\ car_i = Len(run_car_urls)
          /\ Len(ret) = Len(NonNull(results))
          /\ ret = processed_data

\* Two pages with the same two listings, the second of the four results None:
\* three records, the ones of the first, third and fourth url processed.
C13_Witness ==
    /\ pc = "done"
    /\ run_car_urls = <<Abs(1), Abs(2), Abs(1), Abs(2)>>
    /\ results[2].none
    /\ Len(ret) = 3
    /\ ret[1]["ads_id"] = "101"
    /\ ret[2]["ads_id"] = "101"
    /\ ret[3]["ads_id"] = "102"

\* A sequence of one price, one make and the ads_id attribute.
PriceMakeAdsId(result) ==
    /\ ~result.none
    /\ Len(result.attrs) = 3
    /\ {result.attrs[j].id : j \in 1..3} = {"price", "make", "ads_id"}

\* C14: two page urls, the default threshold of 40, two listing urls from
\* each page, one price and one make from each listing: the pages are
\* returned after three attempts each, and the run returns four records,
\* each with the keys price, make and ads_id and no other.
C14_EndToEnd ==
    (/\ pc = "done"
     /\ Len(page_urls) = 2
     /\ expected_urls = DefaultExpected
     /\ \A i \in 1..Len(page_results) : Len(page_results[i]) = 2
     /\ \A j \in 1..Len(results) : PriceMakeAdsId(results[j])) =>
        /\ fetches = 2 * DefaultMaxAttempts + 4
        /\ Len(ret) = 4
        /\ \A k \in 1..Len(ret) : DOMAIN ret[k] = {"price", "make", "ads_id"}

\* Such a run, returned.
C14_Witness ==
    /\ pc = "done"
    /\ Len(page_urls) = 2
    /\ expected_urls = DefaultExpected
    /\ Len(page_results[1]) = 2 /\ Len(page_results[2]) = 2
    /\ \A j \in 1..4 : PriceMakeAdsId(results[j])
    /\ Len(ret) = 4
    /\ DOMAIN ret[4] = {"price", "make", "ads_id"}
    /\ failed_fetches = 0

\* C17: when every fetch of the run has failed, the run ends with an
\* exception and not with a result.
C17_TotalLossPropagates ==
    (pc \in {"done", "raised"} /\ fetches > 0 /\ failed_fetches = fetches) =>
        (pc = "raised" /\ escaped # "none")

----------------------------------------------------------------------------
(* Claims about _make_request, checked under SpecReq. *)

\* C5: _make_request retries a failed attempt at most self.max_retries times.
\* The retry counter equals the number of failed attempts so far (it grows by
\* one per failed attempt) and never exceeds self.max_retries; a call that
\* returns made its successful request last (one request more than the failed
\* ones, none after it); a call whose every attempt failed with a
\* RequestException issued exactly self.max_retries + 1 requests and raises
\* the error of the last attempt.
C5_BoundedRetry ==
    /\ rq_retry <= self_max_retries
    /\ rq_requests <= self_max_retries + 1
    /\ rq \in {"call", "slept"} => rq_retry = rq_fails /\ rq_requests = rq_fails
    /\ rq = "returned" =>
          /\ rq_last.exc = "none"
          /\ rq_retry = rq_fails
          /\ rq_requests = rq_fails + 1
    /\ (rq = "raised" /\ rq_raised.exc \in {"HTTPError", "ConnectionError", "Timeout"}) =>
          /\ rq_fails = rq_requests
          /\ rq_requests = self_max_retries + 1
          /\ rq_raised = rq_last
          /\ rq_raised.at = self_max_retries

\* The default budget of 3 retries is exhausted by 4 failing requests.
C5_Witness ==
    /\ rq = "raised"
    /\ self_max_retries = 3
    /\ rq_requests = 4
    /\ rq_raised = [exc |-> "HTTPError", at |-> 3]

\* C6: every outbound request of _make_request follows exactly one sleep made
\* by the same invocation, of base_delay * 2^retry_count * jitter with the
\* jitter between 0.5 and 1.5 (5 and 15 tenths).
C6_SleepBeforeEveryRequest ==
    [][rq_requests' = rq_requests + 1 =>
          /\ rq_sleeps = 1
          /\ rq_jitter \in 5..15
          /\ rq_delay = base_delay * (2 ^ rq_retry) * rq_jitter]_vars

\* After two failed requests the third invocation has slept 2 * 2^2 * 1.5
\* seconds, once, and sends its request next.
C6_Witness ==
    /\ rq = "slept"
    /\ rq_requests = 2
    /\ rq_retry = 2
    /\ base_delay = 2
    /\ rq_sleeps = 1
    /\ rq_delay = 120

====
